---- MODULE Spec2Model ----
(***************************************************************************)
(* Model of the weather proxy's request pipeline:                          *)
(*   WeatherService.getWeatherData / fetchWeatherFromAPI                   *)
(*   ApiKeyManager (Redis-backed per-day usage and error ledger)           *)
(* Each action is the code that runs between two awaits of one request     *)
(* (Node.js runs that code without interleaving), or one external event    *)
(* (Redis connection events, the clock, the cache TTL).                    *)
(***************************************************************************)
EXTENDS Integers, Sequences, FiniteSets, TLC

\* ---------------------------------------------------------------- bounds
NumWorkers == 2      \* worker processes (each owns one WeatherService)
MaxReq     == 2      \* getWeatherData calls made during one behaviour
MaxConc    == 2      \* getWeatherData calls in flight at the same time
NumKeys    == 2      \* configured credentials key_1 .. key_NumKeys
NumFps     == 2      \* distinct request fingerprints (cache keys)
MaxDay     == 2      \* DayKeys the clock goes through
MaxFaults  == 1      \* Redis error/close events and failed commands per behaviour (SpecFault)
MaxTick    == 6      \* length of the time line of SpecTtl, in ticks of 12 h
MaxHour    == 72     \* length of the time line of SpecClock, in hours

\* ------------------------------------------------ configuration constants
DailyLimit   == 2    \* API_DAILY_LIMIT
MaxErrors    == 3    \* literal 3 of the error checks
RetryCount   == 2    \* API_RETRY_COUNT
LongRetryCount == 3  \* API_RETRY_COUNT of SpecRetry
RetryDelay   == 1000 \* API_RETRY_DELAY, in ms
CacheMaxKeys == 1    \* CACHE_MAX_KEYS
Infinity     == 99   \* JavaScript Infinity, above every usage and priority
TtlTicks     == 4    \* the 48 * 60 * 60 s handed to redis.expire, in ticks of 12 h
DayTicks     == 2    \* one calendar day, in ticks of 12 h
CacheTtlTicks == 2   \* CACHE_TTL (stdTTL), in ticks of 60 s
SweepTicks   == 1    \* checkperiod: 60, in ticks of 60 s

Workers == 1..NumWorkers
Reqs    == 1..MaxReq
Keys    == 1..NumKeys
Fps     == 1..NumFps
Days    == 1..MaxDay
Bodies  == {"sunny", "rain"}          \* upstream 2xx response bodies
UpstreamErrors == {"http", "transport"} \* non-2xx response, network error
NoBody  == "none"
NoReq   == 0

\* loadApiKeys: key_<n> has priority n-1 (configuration order)
priority(k) == k - 1

UpstreamStatus == 404   \* status of an upstream non-2xx response

VARIABLES
  day,             \* what getTodayString() returns now
  usage,           \* Redis usage:<key>:<day>  (absent = 0)
  errors,          \* Redis errors:<key>:<day> (absent = 0)
  redisConnected,  \* ApiKeyManager.redisConnected of each worker
  initState,       \* WeatherService.initializationPromise of each worker
  cacheEnabled,    \* ENABLE_CACHE
  cache,           \* NodeCache of each worker: fingerprint -> body
  pendingRequests, \* WeatherService.pendingRequests: fingerprint -> fetch
  stats,           \* WeatherService.stats of each worker
  req,             \* the getWeatherData calls and where each one is suspended
  faultBudget,     \* Redis faultBudget the environment may still inject
  okCalls,         \* history: 2xx upstream responses per (day, key)
  lostIncr,        \* history: usage increments that failed soft per (day, key)
  maxInFlight,     \* history: largest number of calls in flight at once
  upFailed,        \* history: some upstream call has failed (non-2xx or transport)
  selUsage, selErrors,  \* a ledger of one day handed to getAvailableKey
  selResult,       \* what getAvailableKey returned (0: not called, -1: threw)
  now,             \* the clock of SpecTtl (ticks of 12 h) and of SpecCache (ticks of 60 s)
  ledger,          \* Redis keys of one credential with their TTL: kind -> DayKey -> entry
  input,           \* the arguments handed to the function or handler under study
  output,          \* what that function or handler returned or logged
  store,           \* a NodeCache with its expiry stamps: fingerprint -> entry
  retryConfig      \* WeatherService.retryConfig: count and delay (ms)

vars == <<day, usage, errors, redisConnected, initState, cacheEnabled, cache,
          pendingRequests, stats, req, faultBudget, okCalls, lostIncr, maxInFlight,
          upFailed, selUsage, selErrors, selResult, now, ledger, input, output, store, retryConfig>>

pipeVars == <<day, usage, errors, redisConnected, initState, cacheEnabled, cache,
              pendingRequests, stats, req, faultBudget, okCalls, lostIncr, maxInFlight,
              upFailed>>

selVars == <<selUsage, selErrors, selResult>>

ttlVars == <<now, ledger>>

auxVars == <<input, output, store, retryConfig>>

\* ------------------------------------------------------------- outcomes
Ok(body)  == [ok |-> TRUE,  val |-> body]
Fail(err) == [ok |-> FALSE, val |-> err]
NoOutcome == [ok |-> FALSE, val |-> "pending"]

\* ------------------------------------------- route handler GET /onecall
NoReply == [status |-> 0, body |-> NoBody]

\* axios sets error.response for a non-2xx answer and error.request for
\* every request that was sent; the errors thrown by the pipeline itself
\* carry neither.
hasResponse(err) == err = "http"

hasRequest(err) == err \in {"http", "transport"}

\* error.message.includes('限制') || error.message.includes('quota'):
\* true of the 'all keys at their limit' error of fetchWeatherFromAPI, false
\* of 'Redis连接不可用，无法获取API密钥', of NodeCache's 'Cache max keys
\* amount exceeded' and of the Redis connection errors.
messageNamesLimit(err) == err = "nokeys"

\* The reply of the handler to the outcome of getWeatherData.
replyRequestFirst(outcome) ==
  IF outcome.ok THEN [status |-> 200, body |-> outcome.val]
  ELSE IF hasRequest(outcome.val) THEN [status |-> 503, body |-> "error"]
  ELSE IF hasResponse(outcome.val) THEN [status |-> UpstreamStatus, body |-> "upstream"]
  ELSE IF messageNamesLimit(outcome.val) THEN [status |-> 429, body |-> "error"]
  ELSE [status |-> 500, body |-> "error"]

replyOf(outcome) ==
  IF outcome.ok THEN [status |-> 200, body |-> outcome.val]
  ELSE IF hasResponse(outcome.val) THEN [status |-> UpstreamStatus, body |-> "upstream"]
  ELSE IF hasRequest(outcome.val) THEN [status |-> 503, body |-> "error"]
  ELSE IF messageNamesLimit(outcome.val) THEN [status |-> 429, body |-> "error"]
  ELSE [status |-> 500, body |-> "error"]

IdleReq ==
  [pc |-> "idle", w |-> 1, fp |-> 1, role |-> "none", waitOn |-> NoReq,
   attempt |-> 0, today |-> 1, scan |-> 0, rdUsage |-> 0, avail |-> <<>>,
   keyIndex |-> 0, lastError |-> "none", outcome |-> NoOutcome,
   chargeDay |-> 1, blockedU |-> {}, blockedE |-> {}, charged |-> 0,
   okUp |-> 0, lost |-> 0, body |-> NoBody, upCalls |-> 0, unread |-> {},
   reply |-> NoReply, selDay |-> 1, delay |-> 0, seen |-> "none"]

ZeroStats ==
  [totalRequests |-> 0, cacheHits |-> 0, cacheWrites |-> 0, apiCalls |-> 0,
   errors |-> 0, rtUpdates |-> 0]

InFlight(rq) == {r \in Reqs : rq[r].pc \notin {"idle", "done"}}

Max(a, b) == IF a >= b THEN a ELSE b

\* ------------------------------------------------------- ApiKeyManager
\* getTodayString(): the DayKey of the current date
previousDayString == IF day > 1 THEN day - 1 ELSE day

getTodayString == day

\* The comparator handed to availableKeys.sort: priority first, then usage.
compareUsageFirst(a, b) ==
  IF a.currentUsage # b.currentUsage
    THEN a.currentUsage - b.currentUsage
    ELSE priority(a.id) - priority(b.id)

compareKeys(a, b) ==
  IF priority(a.id) # priority(b.id)
    THEN priority(a.id) - priority(b.id)
    ELSE a.currentUsage - b.currentUsage

RECURSIVE insertKey(_, _)
insertKey(e, s) ==
  IF s = <<>> THEN <<e>>
  ELSE IF compareKeys(e, Head(s)) < 0 THEN <<e>> \o s
  ELSE <<Head(s)>> \o insertKey(e, Tail(s))

\* Array.prototype.sort (stable) with compareKeys
RECURSIVE sortKeys(_)
sortKeys(s) ==
  IF s = <<>> THEN <<>>
  ELSE insertKey(s[Len(s)], sortKeys(SubSeq(s, 1, Len(s) - 1)))

\* the test of getAllAvailableKeys / isKeyAvailable on the two values read
ignoresUsage(u, e) == e < MaxErrors

ignoresErrors(u, e) == u < DailyLimit

isKeyAvailable(u, e) == u < DailyLimit /\ e < MaxErrors

\* selectedKey?.priority || Infinity
priorityOrInfinity(sel) ==
  IF sel = 0 THEN Infinity
  ELSE IF priority(sel) = 0 THEN Infinity
  ELSE priority(sel)

\* The loop of getAvailableKey over this.keys, from key k on, with the
\* selectedKey (0: null) and minUsage found so far.
RECURSIVE selectFrom(_, _, _, _, _)
selectFrom(k, sel, minUsage, u, e) ==
  IF k > NumKeys THEN sel
  ELSE IF e[k] >= MaxErrors THEN selectFrom(k + 1, sel, minUsage, u, e)
  ELSE IF u[k] < DailyLimit
          /\ (u[k] < minUsage
               \/ (u[k] = minUsage /\ priority(k) < priorityOrInfinity(sel)))
    THEN selectFrom(k + 1, k, u[k], u, e)
  ELSE selectFrom(k + 1, sel, minUsage, u, e)

\* getAvailableKey on ledger (u, e): the key chosen, or -1 when it throws.
getAvailableKey(u, e) ==
  LET sel == selectFrom(1, 0, Infinity, u, e)
  IN IF sel = 0 THEN -1 ELSE sel

\* history: one more event counted for (d, k)
tally(counter, d, k) == [counter EXCEPT ![d][k] = @ + 1]

\* redis.incr on a counter
incrTwice(counter, d, k) == [counter EXCEPT ![d][k] = @ + 2]


incr(counter, d, k) == [counter EXCEPT ![d][k] = @ + 1]

\* --------------------------------------------------- lifetime of keys
TtlDays == 1..((MaxTick \div DayTicks) + 1)
LedgerKinds == {"usage", "times", "errors"}

\* expireAt = 0 on an existing key: the key has no TTL
NoEntry == [exists |-> FALSE, first |-> 0, last |-> 0, expireAt |-> 0]

\* the DayKey getTodayString() returns at tick t
dayKeyAt(t) == (t \div DayTicks) + 1

\* redis.incr / redis.lpush: creates the key when absent, keeps its TTL
touch(entry) ==
  IF entry.exists
    THEN [entry EXCEPT !.last = now]
    ELSE [exists |-> TRUE, first |-> now, last |-> now, expireAt |-> 0]

\* redis.expire(key, 48 * 60 * 60)
persist(entry) == entry

expire(entry) == [entry EXCEPT !.expireAt = now + TtlTicks]

\* ------------------------------------------------- fetchWeatherFromAPI
\* the same delay after every attempt
flatDelay(attempt) == retryConfig.delay * (attempt \div attempt)

\* const delay = this.retryConfig.delay * attempt
backoff(attempt) == retryConfig.delay * attempt

\* End of one attempt without a result: sleep before the next attempt, or
\* throw lastError after the last one.
retryAgain(rec, err) ==
  [rec EXCEPT !.pc = "sleep", !.lastError = err, !.delay = backoff(rec.attempt)]

failAttempt(rec, err) ==
  IF rec.attempt < retryConfig.count
    THEN [rec EXCEPT !.pc = "sleep", !.lastError = err, !.delay = backoff(rec.attempt)]
    ELSE [rec EXCEPT !.pc = "settle", !.lastError = err, !.outcome = Fail(err)]

\* Attempt a starts: getAllAvailableKeys runs up to its first redis.get.
beginAttempt(rec, a) ==
  LET r1 == [rec EXCEPT !.attempt = a, !.avail = <<>>, !.keyIndex = 0, !.delay = 0,
                        !.unread = IF redisConnected[rec.w] THEN {} ELSE Keys]
  IN IF ~redisConnected[rec.w]
       THEN failAttempt([r1 EXCEPT !.seen = "redisdown"], "redisdown")
       ELSE [r1 EXCEPT !.pc = "rdUsage", !.today = getTodayString, !.scan = 1,
                       !.selDay = day,
                       !.blockedU = {k \in Keys : usage[day][k] >= DailyLimit},
                       !.blockedE = {k \in Keys : errors[day][k] >= MaxErrors}]

\* The loop of getAllAvailableKeys moves to the next key; after the last
\* key the list is sorted and returned, and the first candidate is called.
nextKey(rec) ==
  IF rec.scan < NumKeys
    THEN [rec EXCEPT !.pc = "rdUsage", !.scan = @ + 1]
    ELSE LET sorted == sortKeys(rec.avail)
         IN IF Len(sorted) = 0
              THEN failAttempt([rec EXCEPT !.avail = sorted, !.seen = "nokeys"], "nokeys")
              ELSE [rec EXCEPT !.pc = "http", !.avail = sorted, !.keyIndex = 1]

\* The catch inside the loop of getAllAvailableKeys: a key whose counters
\* could not be read is skipped.
assumeUnused(rec) ==
  nextKey([rec EXCEPT !.unread = @ \cup {rec.scan},
                      !.avail = Append(@, [id |-> rec.scan, currentUsage |-> 0,
                                           currentErrors |-> 0])])

skipKey(rec) == nextKey([rec EXCEPT !.unread = @ \cup {rec.scan}])

\* a key loop that gives up after its first failed candidate
dropCandidates(rec) == failAttempt(rec, rec.lastError)

\* After recordError: continue with the next candidate of the same list,
\* or break out of the key loop and end the attempt.
afterKeyError(rec) ==
  IF rec.keyIndex < Len(rec.avail)
    THEN [rec EXCEPT !.pc = "http", !.keyIndex = @ + 1]
    ELSE failAttempt(rec, rec.lastError)

\* a catch that keeps the first error of the run
keepFirstError(rec, err) ==
  LET r1 == [rec EXCEPT !.lastError = IF @ = "none" THEN err ELSE @]
  IN IF ~redisConnected[rec.w]
       THEN afterKeyError(r1)
       ELSE [r1 EXCEPT !.pc = "incrError", !.chargeDay = getTodayString]

\* The catch of the key loop: remember the error, call recordError, which
\* returns at once when Redis is not connected.
keyFailed(rec, err) ==
  LET r1 == [rec EXCEPT !.lastError = err]
  IN IF ~redisConnected[rec.w]
       THEN afterKeyError(r1)
       ELSE [r1 EXCEPT !.pc = "incrError", !.chargeDay = getTodayString]

\* --------------------------------------------------------- getWeatherData
\* this.pendingRequests.has(cacheKey)
hasPendingNever(w, fp) == FALSE

hasPending(w, fp) == pendingRequests[w][fp] # NoReq

waitersOf(i) == {r \in Reqs : req[r].pc = "wait" /\ req[r].waitOn = i}

\* Locals of a call that the code no longer reads at the given await are
\* set back to their initial values (they are dead JavaScript locals).
forget(rec) ==
  IF rec.pc = "done"
    THEN [IdleReq EXCEPT !.pc = "done", !.w = rec.w, !.fp = rec.fp, !.role = rec.role,
                         !.waitOn = rec.waitOn, !.outcome = rec.outcome,
                         !.charged = rec.charged, !.lost = rec.lost,
                         !.reply = replyOf(rec.outcome), !.seen = rec.seen]
  ELSE IF rec.pc = "sleep"
    THEN [rec EXCEPT !.today = 1, !.scan = 0, !.rdUsage = 0, !.avail = <<>>,
                     !.keyIndex = 0, !.chargeDay = 1, !.blockedU = {},
                     !.blockedE = {}, !.body = NoBody, !.unread = {}, !.selDay = 1]
  ELSE IF rec.pc = "rdUsage"
    THEN [rec EXCEPT !.rdUsage = 0, !.chargeDay = 1, !.body = NoBody]
  ELSE IF rec.pc = "http"
    THEN [rec EXCEPT !.scan = 0, !.rdUsage = 0, !.chargeDay = 1, !.body = NoBody]
  ELSE rec

\* The fetch promise of initiator i settles: the initiator passes its
\* finally (pending entry deleted) and every coalesced waiter resumes with
\* the same outcome; a rejection goes through each caller's catch.
settledReqs(i, rec) ==
  [r \in Reqs |->
     IF r = i THEN forget([rec EXCEPT !.pc = "done"])
     ELSE IF r \in waitersOf(i)
       THEN forget([req[r] EXCEPT !.pc = "done", !.outcome = rec.outcome])
       ELSE req[r]]

settledStats(st, i, rec) ==
  LET n == Cardinality(waitersOf(i))
  IN IF rec.outcome.ok
       THEN [st EXCEPT ![rec.w].rtUpdates = @ + 1]
       ELSE [st EXCEPT ![rec.w].errors = @ + 1 + n,
                       ![rec.w].rtUpdates = @ + 1 + n]

\* a finally that leaves the pending entry in the map
leaveEntry(r, rec, st) ==
  IF rec.pc = "settle"
    THEN /\ req' = settledReqs(r, rec)
         /\ stats' = settledStats(st, r, rec)
         /\ pendingRequests' = pendingRequests
    ELSE /\ req' = [req EXCEPT ![r] = forget(rec)]
         /\ stats' = st
         /\ pendingRequests' = [pendingRequests EXCEPT ![rec.w][rec.fp] = r]

\* Store the record of request r; a record at "settle" ends the fetch.
\* st is the stats value the step has produced so far.
commit(r, rec, st) ==
  IF rec.pc = "settle"
    THEN /\ req' = settledReqs(r, rec)
         /\ stats' = settledStats(st, r, rec)
         /\ pendingRequests' = [pendingRequests EXCEPT ![rec.w][rec.fp] = NoReq]
    ELSE /\ req' = [req EXCEPT ![r] = forget(rec)]
         /\ stats' = st
         /\ pendingRequests' = [pendingRequests EXCEPT ![rec.w][rec.fp] = r]

cacheSize(w) == Cardinality({f \in Fps : cache[w][f] # NoBody})

\* After recordUsage: count the call, store the body, return it.  NodeCache
\* (maxKeys set) throws from set() when it already holds maxKeys entries;
\* the throw lands in the catch of the key loop.
deliver(rec) ==
  IF cacheEnabled /\ cacheSize(rec.w) >= CacheMaxKeys
    THEN keyFailed([rec EXCEPT !.seen = "cachefull"], "cachefull")
    ELSE [rec EXCEPT !.pc = "settle", !.outcome = Ok(rec.body)]

\* a set() that does not look at cacheEnabled
storeAlways(rec) == [cache EXCEPT ![rec.w][rec.fp] = rec.body]

deliverCache(rec) ==
  IF cacheEnabled /\ cacheSize(rec.w) < CacheMaxKeys
    THEN [cache EXCEPT ![rec.w][rec.fp] = rec.body]
    ELSE cache

deliverStats(rec) ==
  IF cacheEnabled /\ cacheSize(rec.w) < CacheMaxKeys
    THEN [stats EXCEPT ![rec.w].apiCalls = @ + 1, ![rec.w].cacheWrites = @ + 1]
    ELSE [stats EXCEPT ![rec.w].apiCalls = @ + 1]

\* ----------------------------------------------------------------- Init
\* The ledger lives in Redis and outlives the processes: a behaviour starts
\* from a fresh day or from a day on which every counter is one short of
\* its limit.
UsageSeeds == {0, DailyLimit - 1}
ErrorSeeds == {0, MaxErrors - 1}

\* State once the constructors have run, with day-1 counters u and e; conn
\* and ini say whether the ioredis 'connect' event has already happened.
InitWith(u, e, conn, ini, budget) ==
  /\ day = 1
  /\ usage = [d \in Days |-> [k \in Keys |-> IF d = 1 THEN u ELSE 0]]
  /\ errors = [d \in Days |-> [k \in Keys |-> IF d = 1 THEN e ELSE 0]]
  /\ redisConnected = [w \in Workers |-> conn]
  /\ initState = [w \in Workers |-> ini]
  /\ cacheEnabled \in BOOLEAN
  /\ cache = [w \in Workers |-> [f \in Fps |-> NoBody]]
  /\ pendingRequests = [w \in Workers |-> [f \in Fps |-> NoReq]]
  /\ stats = [w \in Workers |-> ZeroStats]
  /\ req = [r \in Reqs |-> IdleReq]
  /\ faultBudget = budget
  /\ okCalls = [d \in Days |-> [k \in Keys |-> IF d = 1 THEN u ELSE 0]]
  /\ lostIncr = [d \in Days |-> [k \in Keys |-> 0]]
  /\ maxInFlight = 0
  /\ upFailed = FALSE

SelIdle ==
  /\ selUsage = [k \in Keys |-> 0]
  /\ selErrors = [k \in Keys |-> 0]
  /\ selResult = 0

\* No Redis key exists at the first midnight.
TtlIdle ==
  /\ now = 0
  /\ ledger = [kind \in LedgerKinds |-> [d \in TtlDays |-> NoEntry]]

\* No function under study has been called; the timed cache is empty.
NoInput == [op |-> "none"]
NoOutput == [op |-> "none"]
NoItem == [body |-> NoBody, t |-> 0]

\* the retry configuration of the pipeline specifications
DefaultRetry == [count |-> RetryCount, delay |-> RetryDelay]

AuxIdle ==
  /\ input = NoInput
  /\ output = NoOutput
  /\ store = [f \in Fps |-> NoItem]
  /\ retryConfig = DefaultRetry

\* Workers constructed and connected to Redis (initialize() has resolved).
Init ==
  /\ \E u \in UsageSeeds, e \in ErrorSeeds : InitWith(u, e, TRUE, "ready", 0)
  /\ SelIdle
  /\ TtlIdle
  /\ AuxIdle

\* Fresh day, or a day on which a counter is one short of its limit.
InitDay ==
  /\ \E s \in {<<DailyLimit - 1, 0>>, <<0, MaxErrors - 1>>, <<DailyLimit - 1, MaxErrors - 1>>} :
        InitWith(s[1], s[2], TRUE, "ready", 0)
  /\ SelIdle
  /\ TtlIdle
  /\ AuxIdle

\* Any ledger of one day, for getAvailableKey.
InitSel ==
  /\ InitWith(0, 0, TRUE, "ready", 0)
  /\ selUsage \in [Keys -> 0..DailyLimit]
  /\ selErrors \in [Keys -> 0..MaxErrors]
  /\ selResult = 0
  /\ TtlIdle
  /\ AuxIdle

\* Workers just constructed: Redis not yet connected, initialize() pending.
InitFault ==
  /\ InitWith(0, 0, FALSE, "pending", MaxFaults)
  /\ SelIdle
  /\ TtlIdle
  /\ AuxIdle

\* A fresh Redis and a connected worker, for the lifetime of the keys.
InitTtl ==
  /\ InitWith(0, 0, TRUE, "ready", 0)
  /\ SelIdle
  /\ TtlIdle
  /\ AuxIdle

\* -------------------------------------------------------------- actions
\* getWeatherData is called: totalRequests++, then await ensureInitialized.
invoke(r, w, fp) ==
  /\ req[r].pc = "idle"
  /\ IF r = 1 THEN TRUE ELSE req[r - 1].pc # "idle"
  /\ Cardinality(InFlight(req)) < MaxConc
  /\ w <= 1 + Cardinality({x \in Workers : \E q \in Reqs : req[q].pc # "idle" /\ req[q].w = x})
  /\ fp <= 1 + Cardinality({x \in Fps : \E q \in Reqs : req[q].pc # "idle" /\ req[q].fp = x})
  /\ req' = [req EXCEPT ![r] = [IdleReq EXCEPT !.pc = "init", !.w = w, !.fp = fp]]
  /\ stats' = [stats EXCEPT ![w].totalRequests = @ + 1]
  /\ maxInFlight' = Max(maxInFlight, Cardinality(InFlight(req)) + 1)
  /\ UNCHANGED <<day, usage, errors, redisConnected, initState, cacheEnabled,
                 cache, pendingRequests, faultBudget, okCalls, lostIncr, upFailed, selVars, ttlVars>>

Call(r, w, fp) ==
  /\ invoke(r, w, fp)
  /\ UNCHANGED auxVars

\* a hit that is also counted as an upstream call
hitAsApiCall(st, w) ==
  [st EXCEPT ![w].cacheHits = @ + 1, ![w].apiCalls = @ + 1, ![w].rtUpdates = @ + 1]

\* the cache-hit branch: cacheHits++ and updateResponseTime
hitStats(st, w) == [st EXCEPT ![w].cacheHits = @ + 1, ![w].rtUpdates = @ + 1]

\* ensureInitialized has settled: cache lookup, then coalescing, then the
\* fetch is started and registered in pendingRequests.
AfterInit(r) ==
  LET rec == req[r]
      w == rec.w
      fp == rec.fp
  IN /\ rec.pc = "init"
     /\ initState[w] # "pending"
     /\ IF initState[w] = "failed"
          THEN /\ req' = [req EXCEPT ![r].pc = "done", ![r].outcome = Fail("init"),
                                     ![r].reply = replyOf(Fail("init"))]
               /\ stats' = [stats EXCEPT ![w].errors = @ + 1, ![w].rtUpdates = @ + 1]
               /\ UNCHANGED pendingRequests
        ELSE IF cacheEnabled /\ cache[w][fp] # NoBody
          THEN /\ req' = [req EXCEPT ![r].pc = "done", ![r].role = "hit",
                                     ![r].outcome = Ok(cache[w][fp]),
                                     ![r].reply = replyOf(Ok(cache[w][fp]))]
               /\ stats' = hitStats(stats, w)
               /\ UNCHANGED pendingRequests
        ELSE IF hasPending(w, fp)
          THEN /\ req' = [req EXCEPT ![r].pc = "wait", ![r].role = "waiter",
                                     ![r].waitOn = pendingRequests[w][fp]]
               /\ UNCHANGED <<stats, pendingRequests>>
        ELSE commit(r, beginAttempt([rec EXCEPT !.role = "initiator"], 1), stats)
     /\ UNCHANGED <<day, usage, errors, redisConnected, initState, cacheEnabled,
                    cache, faultBudget, okCalls, lostIncr, maxInFlight, upFailed, selVars, ttlVars, auxVars>>

\* The backoff sleep is over: next attempt.
Sleep(r) ==
  /\ req[r].pc = "sleep"
  /\ commit(r, beginAttempt(req[r], req[r].attempt + 1), stats)
  /\ UNCHANGED <<day, usage, errors, redisConnected, initState, cacheEnabled,
                 cache, faultBudget, okCalls, lostIncr, maxInFlight, upFailed, selVars, ttlVars, auxVars>>

\* getAllAvailableKeys: redis.get(usageKey) answers, or throws (key skipped).
ReadUsage(r) ==
  LET rec == req[r]
  IN /\ rec.pc = "rdUsage"
     /\ \/ /\ commit(r, [rec EXCEPT !.pc = "rdErrors",
                                     !.rdUsage = usage[rec.today][rec.scan]], stats)
           /\ UNCHANGED faultBudget
        \/ /\ faultBudget > 0
           /\ faultBudget' = faultBudget - 1
           /\ commit(r, skipKey(rec), stats)
     /\ UNCHANGED <<day, usage, errors, redisConnected, initState, cacheEnabled,
                    cache, okCalls, lostIncr, maxInFlight, upFailed, selVars, ttlVars, auxVars>>

\* getAllAvailableKeys: redis.get(errorKey) answers, or throws (key skipped).
ReadErrors(r) ==
  LET rec == req[r]
      k == rec.scan
      e == errors[rec.today][k]
      entry == [id |-> k, currentUsage |-> rec.rdUsage, currentErrors |-> e]
  IN /\ rec.pc = "rdErrors"
     /\ \/ /\ commit(r, nextKey(IF isKeyAvailable(rec.rdUsage, e)
                                   THEN [rec EXCEPT !.avail = Append(@, entry)]
                                   ELSE rec), stats)
           /\ UNCHANGED faultBudget
        \/ /\ faultBudget > 0
           /\ faultBudget' = faultBudget - 1
           /\ commit(r, skipKey(rec), stats)
     /\ UNCHANGED <<day, usage, errors, redisConnected, initState, cacheEnabled,
                    cache, okCalls, lostIncr, maxInFlight, upFailed, selVars, ttlVars, auxVars>>

\* httpClient.get settles.  2xx: recordUsage is called (it returns at once
\* when Redis is not connected).  Otherwise the catch of the key loop runs.
HttpResponse(r) ==
  LET rec == [req[r] EXCEPT !.upCalls = @ + 1]
      k == rec.avail[rec.keyIndex].id
  IN /\ rec.pc = "http"
     /\ \/ \E b \in Bodies :
             LET r1 == [rec EXCEPT !.body = b, !.okUp = @ + 1]
             IN /\ okCalls' = tally(okCalls, day, k)
                /\ IF redisConnected[rec.w]
                     THEN /\ commit(r, [r1 EXCEPT !.pc = "incrUsage", !.chargeDay = getTodayString], stats)
                          /\ UNCHANGED <<lostIncr, cache>>
                     ELSE /\ lostIncr' = tally(lostIncr, day, k)
                          /\ cache' = deliverCache(r1)
                          /\ commit(r, deliver([r1 EXCEPT !.lost = @ + 1]), deliverStats(r1))
                /\ UNCHANGED upFailed
        \/ \E e \in UpstreamErrors :
             /\ commit(r, keyFailed([rec EXCEPT !.seen = e], e), stats)
             /\ upFailed' = TRUE
             /\ UNCHANGED <<okCalls, lostIncr, cache>>
     /\ UNCHANGED <<day, usage, errors, redisConnected, initState, cacheEnabled,
                    faultBudget, maxInFlight, selVars, ttlVars, auxVars>>

\* recordUsage: redis.incr(usageKey) is applied, or fails (logged; the
\* remaining commands of recordUsage are skipped).
IncrUsage(r) ==
  LET rec == req[r]
      k == rec.avail[rec.keyIndex].id
  IN /\ rec.pc = "incrUsage"
     /\ \/ /\ usage' = incr(usage, rec.chargeDay, k)
           /\ commit(r, [rec EXCEPT !.pc = "usageTail", !.charged = @ + 1], stats)
           /\ UNCHANGED <<lostIncr, cache, faultBudget>>
        \/ /\ faultBudget > 0
           /\ faultBudget' = faultBudget - 1
           /\ lostIncr' = tally(lostIncr, rec.chargeDay, k)
           /\ cache' = deliverCache(rec)
           /\ commit(r, deliver([rec EXCEPT !.lost = @ + 1]), deliverStats(rec))
           /\ UNCHANGED usage
     /\ UNCHANGED <<day, errors, redisConnected, initState, cacheEnabled,
                    okCalls, maxInFlight, upFailed, selVars, ttlVars, auxVars>>

\* recordUsage: expire, lpush, expire have answered; then apiCalls++,
\* cache.set and return of the body.
UsageTail(r) ==
  LET rec == req[r]
  IN /\ rec.pc = "usageTail"
     /\ cache' = deliverCache(rec)
     /\ commit(r, deliver(rec), deliverStats(rec))
     /\ UNCHANGED <<day, usage, errors, redisConnected, initState, cacheEnabled,
                    faultBudget, okCalls, lostIncr, maxInFlight, upFailed, selVars, ttlVars, auxVars>>

\* recordError: redis.incr(errorKey) (and expire) is applied, or fails
\* (logged); then the key loop goes on.
IncrError(r) ==
  LET rec == req[r]
      k == rec.avail[rec.keyIndex].id
  IN /\ rec.pc = "incrError"
     /\ \/ /\ errors' = incr(errors, rec.chargeDay, k)
           /\ UNCHANGED faultBudget
        \/ /\ faultBudget > 0
           /\ faultBudget' = faultBudget - 1
           /\ UNCHANGED errors
     /\ commit(r, afterKeyError(rec), stats)
     /\ UNCHANGED <<day, usage, redisConnected, initState, cacheEnabled, cache,
                    okCalls, lostIncr, maxInFlight, upFailed, selVars, ttlVars, auxVars>>

\* a 'connect' that makes the service ready whatever happened before
reconnectResolves(w) ==
  /\ ~redisConnected[w]
  /\ redisConnected' = [redisConnected EXCEPT ![w] = TRUE]
  /\ initState' = [initState EXCEPT ![w] = "ready"]
  /\ UNCHANGED <<day, usage, errors, cacheEnabled, cache, pendingRequests, stats,
                 req, faultBudget, okCalls, lostIncr, maxInFlight, upFailed, selVars, ttlVars, auxVars>>

\* ioredis 'connect': redisConnected = true, the init promise resolves.
RedisConnect(w) ==
  /\ ~redisConnected[w]
  /\ redisConnected' = [redisConnected EXCEPT ![w] = TRUE]
  /\ initState' = [initState EXCEPT ![w] = IF @ = "pending" THEN "ready" ELSE @]
  /\ UNCHANGED <<day, usage, errors, cacheEnabled, cache, pendingRequests, stats,
                 req, faultBudget, okCalls, lostIncr, maxInFlight, upFailed, selVars, ttlVars, auxVars>>

\* ioredis 'error': redisConnected = false, a pending init promise rejects.
RedisError(w) ==
  /\ faultBudget > 0
  /\ faultBudget' = faultBudget - 1
  /\ redisConnected' = [redisConnected EXCEPT ![w] = FALSE]
  /\ initState' = [initState EXCEPT ![w] = IF @ = "pending" THEN "failed" ELSE @]
  /\ UNCHANGED <<day, usage, errors, cacheEnabled, cache, pendingRequests, stats,
                 req, okCalls, lostIncr, maxInFlight, upFailed, selVars, ttlVars, auxVars>>

\* ioredis 'close': redisConnected = false.
RedisClose(w) ==
  /\ faultBudget > 0
  /\ redisConnected[w]
  /\ faultBudget' = faultBudget - 1
  /\ redisConnected' = [redisConnected EXCEPT ![w] = FALSE]
  /\ UNCHANGED <<day, usage, errors, initState, cacheEnabled, cache,
                 pendingRequests, stats, req, okCalls, lostIncr, maxInFlight, upFailed, selVars, ttlVars, auxVars>>

\* The 6 s timer of initRedis fires while still not connected.
InitTimeout(w) ==
  /\ initState[w] = "pending"
  /\ ~redisConnected[w]
  /\ initState' = [initState EXCEPT ![w] = "failed"]
  /\ UNCHANGED <<day, usage, errors, redisConnected, cacheEnabled, cache,
                 pendingRequests, stats, req, faultBudget, okCalls, lostIncr,
                 maxInFlight, upFailed, selVars, ttlVars, auxVars>>

\* The date changes: getTodayString returns the next DayKey.
NewDay ==
  /\ day < MaxDay
  /\ day' = day + 1
  /\ UNCHANGED <<usage, errors, redisConnected, initState, cacheEnabled, cache,
                 pendingRequests, stats, req, faultBudget, okCalls, lostIncr,
                 maxInFlight, upFailed, selVars, ttlVars, auxVars>>

\* NodeCache drops an entry whose TTL is over (on get or by its sweeper).
CacheExpire(w, fp) ==
  /\ cache[w][fp] # NoBody
  /\ cache' = [cache EXCEPT ![w][fp] = NoBody]
  /\ UNCHANGED <<day, usage, errors, redisConnected, initState, cacheEnabled,
                 pendingRequests, stats, req, faultBudget, okCalls, lostIncr,
                 maxInFlight, upFailed, selVars, ttlVars, auxVars>>

\* recordUsage with a reachable Redis: incr and expire of the usage key,
\* lpush and expire of the times key of today.
recordUsage ==
  LET d == dayKeyAt(now)
  IN /\ ledger' = [ledger EXCEPT !["usage"][d] = expire(touch(@)),
                                 !["times"][d] = expire(touch(@))]
     /\ UNCHANGED <<pipeVars, selVars, now, auxVars>>

\* recordError with a reachable Redis: incr and expire of the errors key.
recordError ==
  LET d == dayKeyAt(now)
  IN /\ ledger' = [ledger EXCEPT !["errors"][d] = expire(touch(@))]
     /\ UNCHANGED <<pipeVars, selVars, now, auxVars>>

\* The hourly timer of the constructor: cleanupOldUsage reads today's DayKey
\* and sends redis.keys('usage:*') (Redis is reachable).
cleanupOldUsage ==
  /\ input = NoInput
  /\ input' = [op |-> "cleanup", pc |-> "usage", today |-> dayKeyAt(now),
                keysToDelete |-> {}]
  /\ UNCHANGED <<pipeVars, selVars, ttlVars, output, store, retryConfig>>

\* the pattern scanned after the one of kind
nextScan(kind) ==
  IF kind = "usage" THEN "times" ELSE IF kind = "times" THEN "errors" ELSE "del"

\* the keys of the reply that do not contain today
staleKeys(kind, today) ==
  {<<kind, d>> : d \in {x \in TtlDays : ledger[kind][x].exists /\ x # today}}

\* redis.keys answers for one pattern; after the third reply the keys to
\* delete are known: none ends the call, otherwise redis.del is sent.
cleanupKeys ==
  /\ input.op = "cleanup"
  /\ input.pc \in LedgerKinds
  /\ LET found == input.keysToDelete \cup staleKeys(input.pc, input.today)
     IN input' = IF nextScan(input.pc) = "del" /\ found = {}
                   THEN NoInput
                   ELSE [input EXCEPT !.pc = nextScan(input.pc),
                                      !.keysToDelete = found]
  /\ UNCHANGED <<pipeVars, selVars, ttlVars, output, store, retryConfig>>

\* redis.del(...keysToDelete) answers: the call is over.
cleanupDel ==
  /\ input.op = "cleanup"
  /\ input.pc = "del"
  /\ ledger' = [kind \in LedgerKinds |-> [d \in TtlDays |->
                   IF <<kind, d>> \in input.keysToDelete
                     THEN NoEntry ELSE ledger[kind][d]]]
  /\ input' = NoInput
  /\ UNCHANGED <<pipeVars, selVars, now, output, store, retryConfig>>

\* Twelve hours pass; Redis drops the keys whose TTL has run out.
Tick ==
  /\ now < MaxTick
  /\ now' = now + 1
  /\ ledger' = [kind \in LedgerKinds |-> [d \in TtlDays |->
                   IF /\ ledger[kind][d].exists
                      /\ ledger[kind][d].expireAt # 0
                      /\ ledger[kind][d].expireAt <= now + 1
                     THEN NoEntry ELSE ledger[kind][d]]]
  /\ UNCHANGED <<pipeVars, selVars, auxVars>>

\* The steps of the calls in flight, and the cache TTL.
Steps ==
  \/ \E r \in Reqs : AfterInit(r)
  \/ \E r \in Reqs : Sleep(r)
  \/ \E r \in Reqs : ReadUsage(r)
  \/ \E r \in Reqs : ReadErrors(r)
  \/ \E r \in Reqs : HttpResponse(r)
  \/ \E r \in Reqs : IncrUsage(r)
  \/ \E r \in Reqs : UsageTail(r)
  \/ \E r \in Reqs : IncrError(r)
  \/ \E w \in Workers, fp \in Fps : CacheExpire(w, fp)

\* The pipeline proper, with the calls arriving at the workers in W.
Pipeline(W) ==
  \/ \E r \in Reqs, w \in W, fp \in Fps : Call(r, w, fp)
  \/ Steps

\* Reliable Redis, one DayKey.
Next == Pipeline(Workers)

Spec == Init /\ [][Next]_vars

\* The DayKey may change at any moment (the ledger is shared, so the calls
\* of one worker show every ledger behaviour).
NextDay ==
  \/ Pipeline({1})
  \/ NewDay

SpecDay == InitDay /\ [][NextDay]_vars

\* Redis connection events and failing Redis commands, seen from one worker.
NextFault ==
  \/ Pipeline({1})
  \/ \E w \in {1} : RedisConnect(w)
  \/ \E w \in {1} : RedisError(w)
  \/ \E w \in {1} : RedisClose(w)
  \/ \E w \in {1} : InitTimeout(w)

SpecFault == InitFault /\ [][NextFault]_vars

\* getAvailableKey is called on the ledger drawn by InitSel.
SelectKey ==
  /\ selResult = 0
  /\ selResult' = getAvailableKey(selUsage, selErrors)
  /\ UNCHANGED <<pipeVars, selUsage, selErrors, ttlVars, auxVars>>

NextSel == SelectKey

SpecSel == InitSel /\ [][NextSel]_vars

\* The Redis keys of one credential over several days.
NextTtl ==
  \/ recordUsage
  \/ recordError
  \/ cleanupOldUsage
  \/ cleanupKeys
  \/ cleanupDel
  \/ Tick

SpecTtl == InitTtl /\ [][NextTtl]_vars

TypeOK ==
  /\ day \in Days
  /\ \A r \in Reqs : req[r].pc \in {"idle", "init", "wait", "rdUsage", "rdErrors",
        "http", "incrUsage", "usageTail", "incrError", "sleep", "done"}

\* ================================================================ claims
FetchPcs == {"rdUsage", "rdErrors", "http", "incrUsage", "usageTail", "incrError", "sleep"}

\* the fetches (fetchWeatherFromAPI runs) in flight at worker w for fingerprint fp
fetchesOf(w, fp) ==
  {r \in Reqs : req[r].pc \in FetchPcs /\ req[r].w = w /\ req[r].fp = fp}

\* the candidate list of request r is complete (getAllAvailableKeys returned)
listed(r) == req[r].pc \in {"http", "incrUsage", "usageTail", "incrError"}

\* the credential request r is calling, or has just called
currentKey(r) == req[r].avail[req[r].keyIndex].id

\* C1: single-flight - in one worker, at most one fetch (hence at most one
\* upstream call) per fingerprint is in flight in every reachable state.
C1_SingleFlight ==
  \A w \in Workers, fp \in Fps : Cardinality(fetchesOf(w, fp)) <= 1

\* C1 witness: a second call with the same fingerprint waits on the fetch of
\* the first one while its upstream call is in flight.
C1_Witness ==
  \E r, i \in Reqs :
    /\ req[r].pc = "wait" /\ req[r].waitOn = i
    /\ req[i].pc = "http" /\ req[i].w = req[r].w /\ req[i].fp = req[r].fp

\* C2: coalescing - a call that found a pending entry starts no fetch of its
\* own and gets the outcome of the initiating fetch; the calls sharing one
\* fetch cause one upstream call and one usage increment in total (a fetch
\* never needs a second 2xx response and never charges usage twice).
C2_Coalescing ==
  /\ \A r \in Reqs : req[r].role = "waiter" =>
       /\ req[r].okUp = 0 /\ req[r].charged = 0
       /\ req[r].pc = "done" =>
            req[req[r].waitOn].pc = "done" /\ req[r].outcome = req[req[r].waitOn].outcome
  /\ \A r \in Reqs : req[r].okUp <= 1 /\ req[r].charged <= 1

pendingIncr(d, k) ==
  Cardinality({r \in Reqs : req[r].pc = "incrUsage" /\ req[r].chargeDay = d
                            /\ currentKey(r) = k})

C4_UsageAtMostLimit ==
  \A d \in Days, k \in Keys : usage[d][k] <= DailyLimit

\* C4 amended: no usage counter exceeds DailyLimit as long as the logical
\* requests were served one at a time.
C4_UsageAtMostLimitSequential ==
  maxInFlight <= 1 => \A d \in Days, k \in Keys : usage[d][k] <= DailyLimit

\* C4 witness: requests served one at a time brought a counter to the limit.
C4_Witness ==
  /\ maxInFlight = 1
  /\ \A r \in Reqs : req[r].pc = "done"
  /\ \E k \in Keys : usage[1][k] = DailyLimit

\* C5: the overshoot of a usage counter over DailyLimit is at most the
\* number of logical requests that were in flight at the same time.
C5_OvershootBounded ==
  \A d \in Days, k \in Keys : usage[d][k] <= DailyLimit + maxInFlight

\* C5 witness: a race has pushed a usage counter over DailyLimit.
C5_Witness ==
  \E k \in Keys : usage[1][k] > DailyLimit

\* C6: a credential whose usage had reached DailyLimit on DayKey d when a
\* selection of day d started is not in that selection's list; a credential
\* is listed iff the counters read for it are below both limits.
C6_QuotaExclusion ==
  \A r \in Reqs :
    /\ req[r].pc \in FetchPcs =>
         \A i \in 1..Len(req[r].avail) :
           /\ req[r].avail[i].id \notin req[r].blockedU
           /\ req[r].avail[i].currentUsage < DailyLimit
           /\ req[r].avail[i].currentErrors < MaxErrors
    /\ listed(r) =>
         \A k \in Keys :
           (\A i \in 1..Len(req[r].avail) : req[r].avail[i].id # k)
             => \/ usage[req[r].today][k] >= DailyLimit
                \/ errors[req[r].today][k] >= MaxErrors

\* C6 witness: a selection started after key usage reached DailyLimit has
\* returned a list without that credential.
C6_Witness ==
  \E r \in Reqs :
    /\ listed(r)
    /\ req[r].blockedU # {}
    /\ Len(req[r].avail) >= 1

\* C7: no upstream call is issued with a credential by a request whose
\* selection started after the third error of the day on that credential;
\* such requests are served by the remaining credentials.
C7_ErrorExclusion ==
  \A r \in Reqs :
    listed(r) => currentKey(r) \notin req[r].blockedE

\* C7 witness: after the third error on key_1 a request calls upstream
\* with key_2.
C7_Witness ==
  \E r \in Reqs :
    /\ req[r].pc = "http"
    /\ 1 \in req[r].blockedE
    /\ currentKey(r) = 2

\* C8: no error counter ever exceeds MaxErrors.
C8_ErrorsAtMostMax ==
  \A d \in Days, k \in Keys : errors[d][k] <= MaxErrors

selectable == {k \in Keys : selUsage[k] < DailyLimit /\ selErrors[k] < MaxErrors}

\* C10: getAvailableKey returns the selectable credential of minimum usage
\* and, among those of minimum usage, the one of lowest priority number.
C10_LeastUsedThenPriority ==
  (selResult # 0 /\ selectable # {}) =>
    /\ selResult \in selectable
    /\ \A k \in selectable :
         \/ selUsage[selResult] < selUsage[k]
         \/ selUsage[selResult] = selUsage[k] /\ priority(selResult) <= priority(k)

\* C11: on a fresh or partly used day, with an always-succeeding upstream
\* and calls made one after the other, every call succeeds until all
\* credentials are at DailyLimit, no usage counter passes DailyLimit and no
\* error is counted; the call after that fails with the no-credentials error
\* (429) without an upstream call.
C11_SequentialQuota ==
  (maxInFlight <= 1 /\ ~upFailed) =>
    /\ \A k \in Keys : usage[1][k] <= DailyLimit /\ errors[1][k] \in ErrorSeeds
    /\ \A r \in Reqs :
         /\ req[r].pc # "incrError"
         /\ req[r].pc = "done" =>
              \/ req[r].outcome.ok
              \/ /\ req[r].outcome = Fail("nokeys")
                 /\ req[r].reply.status = 429
                 /\ req[r].charged = 0 /\ req[r].lost = 0
                 /\ \A k \in Keys : usage[1][k] = DailyLimit

\* the upstream call of request r is answered in this step
answered(r) == req[r].pc = "http" /\ req'[r] # req[r]

\* C12: failover within one attempt - a failed upstream call with candidate
\* c leads to recordError(c), which adds exactly 1 to the error counter of c
\* and leaves usage alone, and the next candidate of the same snapshot is
\* called without a sleep; a 2xx with candidate k adds 1 to usage(k), leaves
\* the error counters alone and ends the request with the body.
C12_Failover ==
  [][\A r \in Reqs :
       /\ (answered(r) /\ req'[r].body = NoBody) =>
            req'[r].pc = "incrError" /\ usage' = usage /\ errors' = errors
       /\ (req[r].pc = "incrError" /\ req'[r] # req[r]) =>
            /\ errors' = [errors EXCEPT ![req[r].chargeDay][currentKey(r)] = @ + 1]
            /\ usage' = usage
            /\ req[r].keyIndex < Len(req[r].avail) =>
                 /\ req'[r].pc = "http"
                 /\ req'[r].attempt = req[r].attempt
                 /\ req'[r].avail = req[r].avail
                 /\ req'[r].keyIndex = req[r].keyIndex + 1
       /\ (answered(r) /\ req'[r].body # NoBody) =>
            req'[r].pc = "incrUsage" /\ usage' = usage /\ errors' = errors
       /\ (req[r].pc = "incrUsage" /\ req'[r] # req[r]) =>
            /\ usage' = [usage EXCEPT ![req[r].chargeDay][currentKey(r)] = @ + 1]
            /\ errors' = errors
            /\ req'[r].pc = "usageTail"
       /\ (req[r].pc = "usageTail" /\ req'[r] # req[r]) =>
            /\ req'[r].pc = "done"
            /\ req'[r].outcome = Ok(req[r].body)
            /\ usage' = usage /\ errors' = errors
  ]_vars

\* upstream calls request r has issued, the one in flight included
issued(r) == req[r].upCalls + (IF req[r].pc = "http" THEN 1 ELSE 0)

\* C13: retry bound - a fetch makes at most RetryCount attempts, tries each
\* credential at most once per attempt and so issues at most
\* RetryCount * |credentials| upstream calls.
C13_RetryBound ==
  \A r \in Reqs :
    /\ req[r].attempt <= RetryCount
    /\ req[r].pc = "sleep" => req[r].attempt < RetryCount
    /\ req[r].pc \in FetchPcs =>
         /\ issued(r) <= RetryCount * NumKeys
         /\ issued(r) <= IF req[r].pc = "sleep"
                           THEN req[r].attempt * NumKeys
                           ELSE (req[r].attempt - 1) * NumKeys + req[r].keyIndex
         /\ req[r].keyIndex <= Len(req[r].avail)
         /\ \A i, j \in 1..Len(req[r].avail) :
              i < j => req[r].avail[i].id # req[r].avail[j].id

\* C13 witness: in its last attempt a request has had its
\* RetryCount * |credentials|-th upstream call answered.
C13_Witness ==
  \E r \in Reqs :
    /\ req[r].attempt = RetryCount
    /\ req[r].pc = "incrError"
    /\ req[r].upCalls = RetryCount * NumKeys

\* C14: error classification at the client boundary - a call that ended on
\* an upstream non-2xx response is answered with the upstream status and
\* body, one that ended on a transport error with 503, one that ended on
\* the no-credentials-available error with 429.
C14_ErrorClassification ==
  \A r \in Reqs :
    (req[r].pc = "done" /\ ~req[r].outcome.ok) =>
      /\ req[r].outcome.val = "http" =>
           req[r].reply = [status |-> UpstreamStatus, body |-> "upstream"]
      /\ req[r].outcome.val = "transport" => req[r].reply.status = 503
      /\ req[r].outcome.val = "nokeys" => req[r].reply.status = 429

\* C14 witness: one call has been answered after a terminal upstream
\* non-2xx response and another one after the no-credentials error.
C14_Witness ==
  \E r, q \in Reqs :
    /\ req[r].pc = "done" /\ req[r].outcome = Fail("http")
    /\ req[q].pc = "done" /\ req[q].outcome = Fail("nokeys")

C16_LedgerUnavailable ==
  \A r \in Reqs :
    /\ req[r].pc = "sleep" => req[r].lastError # "redisdown"
    /\ (req[r].pc = "done" /\ req[r].outcome = Fail("redisdown")) =>
         req[r].reply.status = 503

\* the upstream call of request r is answered 2xx in this step
answered2xx(r) == answered(r) /\ okCalls' # okCalls

\* C17: ledger soft failure - when Redis is not connected or the INCR fails,
\* recordUsage and recordError return without raising and change no
\* counter, and a request whose upstream call answered 2xx returns the body.
C17_SoftFailure ==
  [][\A r \in Reqs :
       /\ (answered2xx(r) /\ ~redisConnected[req[r].w]) =>
            /\ usage' = usage /\ errors' = errors
            /\ req'[r].pc = "done" /\ req'[r].outcome.ok
       /\ (req[r].pc = "incrUsage" /\ req'[r] # req[r] /\ usage' = usage) =>
            /\ errors' = errors
            /\ req'[r].pc = "done" /\ req'[r].outcome = Ok(req[r].body)
       /\ (answered(r) /\ ~answered2xx(r) /\ ~redisConnected[req[r].w]) =>
            /\ usage' = usage /\ errors' = errors
            /\ req'[r].pc \in {"http", "sleep", "done"}
       /\ (req[r].pc = "incrError" /\ req'[r] # req[r] /\ errors' = errors) =>
            /\ usage' = usage
            /\ req'[r].pc \in {"http", "sleep", "done"}
  ]_vars

\* the requests whose recordUsage(k) of day d is between its INCR having
\* been applied and its return
inUsageTail(d, k) ==
  {r \in Reqs : req[r].pc = "usageTail" /\ req[r].chargeDay = d /\ currentKey(r) = k}

\* C18: increments are atomic - with a reachable ledger no update is lost,
\* however the recordUsage calls of the workers overlap: every usage counter
\* equals the number of 2xx responses whose increment has been requested
\* and applied, and the counters of the other credentials are not touched.
C18_NoLostUpdate ==
  \A d \in Days, k \in Keys :
    usage[d][k] = okCalls[d][k] - pendingIncr(d, k)

\* C18 witness: the recordUsage calls of two requests on the same
\* credential and day overlap, and both increments have been applied.
C18_Witness ==
  \E k \in Keys :
    /\ Cardinality(inUsageTail(1, k)) = 2
    /\ usage[1][k] = okCalls[1][k]
    /\ \A r \in inUsageTail(1, k) : req[r].charged = 1

\* C20: day rollover - a selection started after the DayKey changed reads
\* only the counters of the new DayKey: a credential nothing has been
\* written for under the new DayKey is read as 0/0 and is listed, whatever
\* its counters of the day before, and no value read exceeds the counter of
\* the new DayKey.
C20_DayRollover ==
  \A r \in Reqs : listed(r) =>
    /\ \A i \in 1..Len(req[r].avail) :
         /\ req[r].avail[i].currentUsage <= usage[req[r].selDay][req[r].avail[i].id]
         /\ req[r].avail[i].currentErrors <= errors[req[r].selDay][req[r].avail[i].id]
    /\ \A k \in Keys :
         (usage[req[r].selDay][k] = 0 /\ errors[req[r].selDay][k] = 0) =>
           \E i \in 1..Len(req[r].avail) :
             req[r].avail[i] = [id |-> k, currentUsage |-> 0, currentErrors |-> 0]

\* C20 witness: on the second DayKey a selection lists, with counters 0, a
\* credential that was blocked on the first DayKey.
C20_Witness ==
  \E r \in Reqs, k \in Keys :
    /\ listed(r) /\ req[r].selDay = 2
    /\ usage[1][k] >= DailyLimit \/ errors[1][k] >= MaxErrors
    /\ \E i \in 1..Len(req[r].avail) :
         req[r].avail[i] = [id |-> k, currentUsage |-> 0, currentErrors |-> 0]

HoursPerDay == 24
Offsets == {0 - 8, 0, 8}

\* new Date().toISOString().split('T')[0]: the calendar date in UTC.
toISODate(t) == t \div HoursPerDay

\* getDate/setDate/setHours work on the calendar date of the server's zone.
localDate(t, offset) == (t + offset) \div HoursPerDay

\* getNextResetTime: tomorrow's local midnight, as a UTC instant.
getNextResetTime(t, offset) == (localDate(t, offset) + 1) * HoursPerDay - offset

\* A server in one of the zones, one day after the origin of the time line.
InitClock ==
  /\ InitWith(0, 0, TRUE, "ready", 0)
  /\ SelIdle
  /\ TtlIdle
  /\ input \in {[op |-> "clock", utc |-> HoursPerDay, offset |-> o] : o \in Offsets}
  /\ output = NoOutput
  /\ store = [f \in Fps |-> NoItem]
  /\ retryConfig = DefaultRetry

\* One hour passes.
ClockTick ==
  /\ input.utc < HoursPerDay + MaxHour
  /\ input' = [input EXCEPT !.utc = @ + 1]
  /\ UNCHANGED <<pipeVars, selVars, ttlVars, output, store, retryConfig>>

\* getStats reports today's DayKey and the next reset time.
getStats ==
  /\ output' = [op |-> "getStats", at |-> input.utc, offset |-> input.offset,
                date |-> toISODate(input.utc),
                resetTime |-> getNextResetTime(input.utc, input.offset)]
  /\ UNCHANGED <<pipeVars, selVars, ttlVars, input, store, retryConfig>>

NextClock ==
  \/ ClockTick
  \/ getStats

SpecClock == InitClock /\ [][NextClock]_vars

\* C21: the DayKey is the calendar date of the server's local zone and
\* changes exactly at the instant getNextResetTime reports: it keeps its
\* value up to that instant and has another value at it.
C21_LocalMidnight ==
  output.op = "getStats" =>
    /\ output.date = localDate(output.at, output.offset)
    /\ \A u \in output.at..(output.resetTime - 1) : toISODate(u) = output.date
    /\ toISODate(output.resetTime) # output.date

\* ------------------------------------------------- the cache over time
\* One worker's NodeCache with the clock of its TTLs in ticks of 60 s; the
\* upstream call of a miss succeeds at once with a credential in quota.
\* input remembers, per fingerprint, the body a fetch stored and when.
NoSet == [body |-> NoBody, at |-> 0]

\* an entry that never expires (ttl 0)
noExpiry(t) == t - t

\* NodeCache.set: the expiry stamp of an entry stored at time t
expiryStamp(t) == t + CacheTtlTicks

\* NodeCache._check: an entry with a stamp is expired once the stamp is past
expired(item, t) == item.body # NoBody /\ item.t # 0 /\ item.t < t

\* NodeCache.get: the live entry of fp, or a miss
cachedData(fp) == IF expired(store[fp], now) THEN NoBody ELSE store[fp].body

\* NodeCache.stats.keys: the entries held, expired ones not yet deleted included
storeSize(st) == Cardinality({f \in Fps : st[f].body # NoBody})

InitCache ==
  /\ InitWith(0, 0, TRUE, "ready", 0)
  /\ SelIdle
  /\ TtlIdle
  /\ input = [op |-> "cache", stored |-> [f \in Fps |-> NoSet]]
  /\ output = NoOutput
  /\ store = [f \in Fps |-> NoItem]
  /\ retryConfig = DefaultRetry

\* getWeatherData(fp) from start to end: a cache hit returns the entry;
\* a miss (get deletes an expired entry) goes upstream, which answers b, and
\* stores b unless set() throws because the cache is full.
getWeatherData(fp, b) ==
  LET hit == cachedData(fp) # NoBody
      afterGet == IF expired(store[fp], now) THEN [store EXCEPT ![fp] = NoItem] ELSE store
      full == storeSize(afterGet) >= CacheMaxKeys
  IN /\ output' = [op |-> "getWeatherData", fp |-> fp, at |-> now, hit |-> hit,
                   body |-> IF hit THEN cachedData(fp) ELSE IF full THEN NoBody ELSE b,
                   upstream |-> IF hit THEN 0 ELSE 1,
                   since |-> input.stored[fp]]
     /\ store' = IF hit \/ full THEN afterGet
                 ELSE [afterGet EXCEPT ![fp] = [body |-> b, t |-> expiryStamp(now)]]
     /\ input' = IF hit \/ full THEN input
                 ELSE [input EXCEPT !.stored[fp] = [body |-> b, at |-> now]]
     /\ UNCHANGED <<pipeVars, selVars, now, ledger, retryConfig>>

\* clearCache: flushAll drops every entry.
clearCache ==
  /\ store' = [f \in Fps |-> NoItem]
  /\ input' = [input EXCEPT !.stored = [f \in Fps |-> NoSet]]
  /\ UNCHANGED <<pipeVars, selVars, now, ledger, output, retryConfig>>

\* 60 s pass; the sweeper (checkperiod) deletes the expired entries.
CacheTick ==
  /\ now < MaxTick
  /\ now' = now + 1
  /\ store' = IF (now + 1) % SweepTicks = 0
                THEN [f \in Fps |-> IF expired(store[f], now + 1) THEN NoItem ELSE store[f]]
                ELSE store
  /\ UNCHANGED <<pipeVars, selVars, ledger, input, output, retryConfig>>

NextCache ==
  \/ \E fp \in Fps, b \in Bodies : getWeatherData(fp, b)
  \/ clearCache
  \/ CacheTick

SpecCache == InitCache /\ [][NextCache]_vars

\* C22: cache round-trip - once a fetch has stored body B under fp (and the
\* cache has not been cleared since), a getWeatherData(fp) issued less than
\* CacheTTL later returns B without an upstream call, and one issued more
\* than CacheTTL plus the sweep interval later misses and goes upstream.
C22_CacheRoundTrip ==
  (output.op = "getWeatherData" /\ output.since.body # NoBody) =>
    /\ output.at - output.since.at < CacheTtlTicks =>
          output.hit /\ output.body = output.since.body /\ output.upstream = 0
    /\ output.at - output.since.at > CacheTtlTicks + SweepTicks =>
          ~output.hit /\ output.upstream = 1

\* a call one tick after the store is served the stored body
C22_Witness ==
  /\ output.op = "getWeatherData"
  /\ output.since.body # NoBody
  /\ output.at - output.since.at = 1
  /\ output.hit
  /\ output.body = output.since.body
  /\ output.upstream = 0

\* the calls that have returned a body at worker w
served(w) == {r \in Reqs : req[r].pc = "done" /\ req[r].w = w /\ req[r].outcome.ok}

\* C23: with the cache disabled no call is served from the cache and nothing
\* is stored (cacheHits = 0, cacheWrites = 0, the cache stays empty); calls
\* served one after the other make one upstream call each: n served calls
\* mean apiCalls = n and n usage increments, identical fingerprints included.
C23_CacheDisabled ==
  ~cacheEnabled =>
    /\ \A w \in Workers, f \in Fps : cache[w][f] = NoBody
    /\ \A w \in Workers : stats[w].cacheHits = 0 /\ stats[w].cacheWrites = 0
    /\ \A r \in Reqs : req[r].role # "hit"
    /\ (maxInFlight <= 1 /\ InFlight(req) = {}) =>
         /\ \A w \in Workers : stats[w].apiCalls = Cardinality(served(w))
         /\ \A w \in Workers : \A r \in served(w) : req[r].charged = 1
         /\ \A d \in Days, k \in Keys : usage[d][k] = okCalls[d][k]

\* two calls with the same fingerprint, one after the other, at one worker
C23_Witness ==
  /\ ~cacheEnabled
  /\ maxInFlight = 1
  /\ ~upFailed
  /\ \E w \in Workers :
       /\ Cardinality(served(w)) = 2
       /\ \A r1, r2 \in served(w) : req[r1].fp = req[r2].fp
       /\ stats[w].apiCalls = 2

\* request r is at the cache.set of fetchWeatherFromAPI and performs it
setsCache(r) == cacheEnabled /\ req[r].pc = "usageTail" /\ req'[r].pc # "usageTail"

\* C24: the cache is bounded with eviction - it never holds more than
\* CacheMaxKeys entries, and every Set, one performed on a full cache
\* included, leaves the new (fingerprint, body) pair stored.
C24_BoundedWithEviction ==
  [][/\ \A w \in Workers :
          Cardinality({f \in Fps : cache'[w][f] # NoBody}) <= CacheMaxKeys
     /\ \A r \in Reqs :
          setsCache(r) => cache'[req[r].w][req[r].fp] = req[r].body]_vars

\* ------------------------------------------------------ the cache key
\* A JavaScript string is the sequence of its pieces; an optional parameter
\* is such a string or is missing (undefined).
Missing == [given |-> FALSE, str |-> <<>>]
Given(str) == [given |-> TRUE, str |-> str]

\* what getWeatherData can be handed: /onecall passes validated query
\* parameters; /cache/warmup passes the locations of the request body, whose
\* units and lang are strings of any content.
Lats == {1, 2}
Lons == {3}
Excludes == {Missing, Given(<<"daily">>)}
Units == {Missing, Given(<<>>), Given(<<"metric">>),
          Given(<<"metric", ":", "lang", ":", "en">>)}
Langs == {Missing, Given(<<"en">>)}
Params == [lat : Lats, lon : Lons, exclude : Excludes, units : Units, lang : Langs]

\* if (params.x): undefined and the empty string are falsy
truthy(p) == p.given /\ p.str # <<>>

\* keyParts.push(`label:${p}`) when p is truthy
keyPart(label, p) == IF truthy(p) THEN <<<<label, ":">> \o p.str>> ELSE <<>>

\* Array.prototype.join(':')
RECURSIVE join(_)
join(parts) ==
  IF parts = <<>> THEN <<>>
  ELSE IF Len(parts) = 1 THEN Head(parts)
  ELSE Head(parts) \o <<":">> \o join(Tail(parts))

generateCacheKey(params) ==
  LET keyParts == <<<<"lat", ":", ToString(params.lat)>>,
                    <<"lon", ":", ToString(params.lon)>>>>
                  \o keyPart("exclude", params.exclude)
                  \o keyPart("units", params.units)
                  \o keyPart("lang", params.lang)
  IN <<"weather", ":">> \o join(keyParts)

\* Two parameter sets about to be fingerprinted.
InitKey ==
  /\ InitWith(0, 0, TRUE, "ready", 0)
  /\ SelIdle
  /\ TtlIdle
  /\ input \in {[op |-> "params", a |-> a, b |-> b] : a \in Params, b \in Params}
  /\ output = NoOutput
  /\ store = [f \in Fps |-> NoItem]
  /\ retryConfig = DefaultRetry

\* getWeatherData computes the cache key of each of them.
CacheKeys ==
  /\ output = NoOutput
  /\ output' = [op |-> "generateCacheKey", a |-> generateCacheKey(input.a),
                b |-> generateCacheKey(input.b)]
  /\ UNCHANGED <<pipeVars, selVars, ttlVars, input, store, retryConfig>>

NextKey == CacheKeys

SpecKey == InitKey /\ [][NextKey]_vars

\* C25: generateCacheKey is injective over (lat, lon, exclude, units, lang):
\* equal parameter sets give equal keys and parameter sets that differ in
\* any of the five (a missing optional parameter differing from every given
\* one) give different keys.
C25_KeyInjective ==
  output.op = "generateCacheKey" => (output.a = output.b <=> input.a = input.b)

\* ------------------------------------------------ the /onecall handler
\* APP_ID_KEY of the environment (NoAppId: not set) and the appid values
\* of the incoming queries.
NoAppId == ""
AppIdKeys == {NoAppId, "app-key"}
AppIds == {"app-key", "other"}

\* a comparison that lets every appid pass
acceptAny(appid, expectedAppId) == appid = appid

\* the negation of appid !== expectedAppId
authorized(appid, expectedAppId) == appid = expectedAppId

Reply(status) == [op |-> "reply", status |-> status]

\* A connected worker whose environment has APP_ID_KEY set or not.
InitAuth ==
  /\ InitWith(0, 0, TRUE, "ready", 0)
  /\ SelIdle
  /\ TtlIdle
  /\ input \in {[op |-> "env", expectedAppId |-> e, appid |-> NoAppId, valid |-> TRUE] :
                  e \in AppIdKeys}
  /\ output = NoOutput
  /\ store = [f \in Fps |-> NoItem]
  /\ retryConfig = DefaultRetry

\* GET /onecall arrives: the query is validated against the schema (400),
\* then the handler checks APP_ID_KEY (500) and the appid (401), and only
\* then calls getWeatherData with the remaining parameters.
Onecall(r, w, fp, appid, valid) ==
  /\ input' = [input EXCEPT !.op = "onecall", !.appid = appid, !.valid = valid]
  /\ IF ~valid
       THEN output' = Reply(400) /\ UNCHANGED <<pipeVars, selVars, ttlVars>>
     ELSE IF input.expectedAppId = NoAppId
       THEN output' = Reply(500) /\ UNCHANGED <<pipeVars, selVars, ttlVars>>
     ELSE IF ~authorized(appid, input.expectedAppId)
       THEN output' = Reply(401) /\ UNCHANGED <<pipeVars, selVars, ttlVars>>
     ELSE output' = NoOutput /\ invoke(r, w, fp)
  /\ UNCHANGED <<store, retryConfig>>

\* Every call of getWeatherData comes from the handler.
NextAuth ==
  \/ \E r \in Reqs, fp \in Fps, appid \in AppIds, valid \in BOOLEAN :
        Onecall(r, 1, fp, appid, valid)
  \/ Steps

SpecAuth == InitAuth /\ [][NextAuth]_vars

\* a well-formed /onecall query whose appid is not the configured APP_ID_KEY
\* is being handled in this step
rejected ==
  /\ input' # input
  /\ input'.valid
  /\ input'.expectedAppId # NoAppId
  /\ input'.appid # input'.expectedAppId

\* C26: a request whose appid differs from APP_ID_KEY is answered 401 and
\* getWeatherData is not invoked: no call is started and the telemetry, the
\* cache, the pending map and the ledger are left unchanged.
C26_Unauthorized ==
  [][rejected =>
       /\ output'.op = "reply" /\ output'.status = 401
       /\ UNCHANGED <<req, stats, cache, pendingRequests, usage, errors>>]_vars

\* a request was refused with 401 while a call is in flight and another
\* one has been served
C26_Witness ==
  /\ output.op = "reply" /\ output.status = 401
  /\ input.appid # input.expectedAppId
  /\ \E r \in Reqs : req[r].pc \in FetchPcs
  /\ \E r \in Reqs : req[r].pc = "done" /\ req[r].outcome.ok

\* ------------------------------------------------------------ the logs
\* OPENWEATHER_API_KEYS: the secret of credential key_<k> (an alphanumeric
\* string, which URLSearchParams leaves as it is)
secret(k) == "secret" \o ToString(k)

\* buildApiUrl, as the sequence of its pieces (fingerprint fp stands for the
\* lat, lon and optional parameters)
buildApiUrl(fp, apiKey) ==
  <<"https://api.openweathermap.org/data/3.0/onecall", "?", "params=", ToString(fp),
    "&", "appid=", apiKey>>

\* error.config?.url: axios errors (non-2xx, transport) carry the request
\* configuration, the error thrown by cache.set does not
configUrl(r) ==
  IF req[r].lastError \in UpstreamErrors
    THEN buildApiUrl(req[r].fp, secret(currentKey(r)))
    ELSE <<>>

\* the console.warn of the key loop's catch, after recordError has returned
warnRecord(r) ==
  [error |-> req[r].lastError, keyId |-> currentKey(r), url |-> configUrl(r)]

\* request r passes that console.warn in this step
warns(r) == req[r].pc = "incrError" /\ req'[r] # req[r]

contains(pieces, piece) == \E i \in 1..Len(pieces) : pieces[i] = piece

\* C27: no log record contains the secret of a credential, failing upstream
\* calls included.
C27_NoSecretLogged ==
  [][\A r \in Reqs :
       warns(r) => \A k \in Keys : ~contains(warnRecord(r).url, secret(k))]_vars

\* ------------------------------------------------------ resetKeyUsage
\* resetKeyUsage(keyId) on the ledger drawn by InitSel, with Redis
\* connected: the usage key and the times key of today are deleted (an
\* absent counter reads 0); the errors key is not touched.  output keeps
\* the ledger as it was before the call.
resetKeyUsage(keyId) ==
  /\ redisConnected[1]
  /\ selUsage' = [selUsage EXCEPT ![keyId] = 0]
  /\ output' = [op |-> "resetKeyUsage", keyId |-> keyId,
                usage |-> selUsage, errors |-> selErrors]
  /\ UNCHANGED <<pipeVars, selErrors, selResult, ttlVars, input, store, retryConfig>>

NextReset == \E keyId \in Keys : resetKeyUsage(keyId)

SpecReset == InitSel /\ [][NextReset]_vars

\* C28: after resetKeyUsage(c) the counters of c for the current day are
\* both 0, so that c is selectable again, and the counters of every other
\* credential are what they were.
C28_ResetClears ==
  output.op = "resetKeyUsage" =>
    /\ selUsage[output.keyId] = 0
    /\ selErrors[output.keyId] = 0
    /\ output.keyId \in selectable
    /\ \A k \in Keys \ {output.keyId} :
         selUsage[k] = output.usage[k] /\ selErrors[k] = output.errors[k]

\* ------------------------------------------------ retries and backoff
\* One worker whose API_RETRY_COUNT is LongRetryCount, so that a fetch can
\* sleep after more than one attempt.
InitRetry ==
  /\ \E u \in UsageSeeds : InitWith(u, 0, TRUE, "ready", 0)
  /\ SelIdle
  /\ TtlIdle
  /\ input = NoInput
  /\ output = NoOutput
  /\ store = [f \in Fps |-> NoItem]
  /\ retryConfig = [count |-> LongRetryCount, delay |-> RetryDelay]

NextRetry == Pipeline({1})

SpecRetry == InitRetry /\ [][NextRetry]_vars

\* the attempt of request r ends in this step without a successful upstream
\* call: the fetch goes to sleep or throws
attemptFails(r) ==
  /\ req[r].pc \in FetchPcs \ {"sleep"}
  /\ \/ req'[r].pc = "sleep"
     \/ req'[r].pc = "done" /\ ~req'[r].outcome.ok

\* a candidate of request r has failed in this step and another candidate of
\* the same attempt is left
nextCandidate(r) ==
  /\ req[r].pc = "incrError"
  /\ req'[r] # req[r]
  /\ req[r].keyIndex < Len(req[r].avail)

\* C29 as claimed: every attempt a in 1..RetryCount that ends without a
\* successful upstream call is followed by a sleep of RetryDelay * a, and
\* there is no sleep between the candidates of one attempt.
C29_SleepAfterEveryAttempt ==
  [][\A r \in Reqs :
       /\ attemptFails(r) =>
            /\ req'[r].pc = "sleep"
            /\ req'[r].delay = retryConfig.delay * req[r].attempt
       /\ nextCandidate(r) => req'[r].pc = "http"]_vars

\* C29 amended: an attempt a < RetryCount that ends without a successful
\* upstream call is followed by a sleep of RetryDelay * a; after attempt
\* RetryCount the fetch throws at once, without sleeping; there is no sleep
\* between the candidates of one attempt.
C29_LinearBackoff ==
  [][\A r \in Reqs :
       /\ attemptFails(r) =>
            IF req[r].attempt < retryConfig.count
              THEN /\ req'[r].pc = "sleep"
                   /\ req'[r].delay = retryConfig.delay * req[r].attempt
              ELSE req'[r].pc = "done"
       /\ nextCandidate(r) => req'[r].pc = "http"]_vars

\* a fetch sleeps twice the delay after its second attempt
C29_Witness ==
  \E r \in Reqs :
    /\ req[r].pc = "sleep"
    /\ req[r].attempt = 2
    /\ req[r].delay = 2 * retryConfig.delay
    /\ req[r].upCalls = 2 * NumKeys

\* C30: a fetch that has used up its attempts fails, and fails with the
\* last error observed in the run - that of the last failed upstream call or
\* of the last failed selection, whichever came later; while the fetch runs,
\* the error it would throw is the last one observed.
C30_LastError ==
  \A r \in Reqs :
    /\ req[r].pc \in FetchPcs => req[r].lastError = req[r].seen
    /\ (req[r].pc = "done" /\ req[r].role = "initiator" /\ ~req[r].outcome.ok) =>
         /\ req[r].seen # "none"
         /\ req[r].outcome.val = req[r].seen

\* a fetch whose upstream calls failed in two ways has thrown
C30_Witness ==
  \E r \in Reqs :
    /\ req[r].pc = "done"
    /\ req[r].role = "initiator"
    /\ req[r].outcome = Fail("transport")
    /\ req[r].seen = "transport"
    /\ errors[day][1] >= 1

\* request r is answered from the cache in this step
hits(r) == req[r].pc = "init" /\ req'[r].pc = "done" /\ req'[r].role = "hit"

\* C31: a call that hits the cache returns the cached body, increments
\* cacheHits by exactly 1 and leaves the pending map, apiCalls, cacheWrites,
\* the error counter and every ledger counter unchanged; it makes no
\* upstream call and reads nothing from the ledger.
C31_CacheHitPath ==
  [][\A r \in Reqs : hits(r) =>
       LET w == req[r].w
       IN /\ req'[r].outcome = Ok(cache[w][req[r].fp])
          /\ cache[w][req[r].fp] # NoBody
          /\ stats'[w].cacheHits = stats[w].cacheHits + 1
          /\ stats'[w].apiCalls = stats[w].apiCalls
          /\ stats'[w].cacheWrites = stats[w].cacheWrites
          /\ stats'[w].errors = stats[w].errors
          /\ req'[r].upCalls = 0 /\ req'[r].scan = 0 /\ req'[r].attempt = 0
          /\ UNCHANGED <<pendingRequests, cache, usage, errors, okCalls>>
          /\ \A v \in Workers \ {w} : stats'[v] = stats[v]]_vars

\* a call has been answered from the cache with the body a fetch stored
C31_Witness ==
  \E r \in Reqs :
    /\ req[r].pc = "done" /\ req[r].role = "hit"
    /\ req[r].outcome.ok
    /\ stats[req[r].w].cacheHits = 1
    /\ stats[req[r].w].apiCalls = 1
    /\ stats[req[r].w].cacheWrites = 1

\* ------------------------------------------------------------ progress
\* The steps of call r: every await of the pipeline settles (Redis commands,
\* the upstream call within its timeout, the backoff timer).
ReqStep(r) ==
  \/ AfterInit(r)
  \/ Sleep(r)
  \/ ReadUsage(r)
  \/ ReadErrors(r)
  \/ HttpResponse(r)
  \/ IncrUsage(r)
  \/ UsageTail(r)
  \/ IncrError(r)

\* A fresh day.
InitLive ==
  /\ InitWith(0, 0, TRUE, "ready", 0)
  /\ SelIdle
  /\ TtlIdle
  /\ AuxIdle

\* One worker whose awaits all settle.
LiveWorker == CHOOSE w \in Workers : \A v \in Workers : w <= v

SpecLive ==
  /\ InitLive
  /\ [][Pipeline({LiveWorker})]_vars
  /\ WF_vars(\E r \in Reqs : ReqStep(r))

\* C32: the pending entry of fp exists from the initiator's cache miss until
\* its fetch settles; every pending entry is eventually removed, given that
\* every upstream call and ledger operation terminates; and the pending map
\* is empty whenever no getWeatherData call is in progress.
C32_PendingLifecycle ==
  /\ [](\A r \in Reqs : req[r].pc \in FetchPcs =>
           pendingRequests[req[r].w][req[r].fp] = r)
  /\ [](\A w \in Workers, fp \in Fps : pendingRequests[w][fp] # NoReq =>
           req[pendingRequests[w][fp]].pc \in FetchPcs)
  /\ [](InFlight(req) = {} =>
           \A w \in Workers, fp \in Fps : pendingRequests[w][fp] = NoReq)
  /\ \A fp \in Fps :
       (pendingRequests[LiveWorker][fp] # NoReq) ~> (pendingRequests[LiveWorker][fp] = NoReq)

\* a pending entry whose fetch is between two attempts, with a second call
\* waiting on it
C32_Witness ==
  \E r \in Reqs :
    /\ req[r].pc = "sleep"
    /\ pendingRequests[req[r].w][req[r].fp] = r
    /\ waitersOf(r) # {}

\* The calls that have completed at worker w, and those among them that failed.
completed(w) == {r \in Reqs : req[r].pc = "done" /\ req[r].w = w}

failed(w) == {r \in completed(w) : ~req[r].outcome.ok}

\* C33: every completed getWeatherData call (cache hit, initiating fetch or
\* coalesced waiter, ended well or not) has updated the response-time
\* reservoir exactly once, and every failed call has incremented the errors
\* counter exactly once.
C33_ReservoirOncePerCall ==
  \A w \in Workers :
    /\ stats[w].rtUpdates = Cardinality(completed(w))
    /\ stats[w].errors = Cardinality(failed(w))

\* cleanupOldUsage completes with this step
cleanupEnds == input.op = "cleanup" /\ input' = NoInput

\* C34: when cleanupOldUsage completes, every usage, times and errors entry
\* of an earlier day is gone and every entry of the current day is still
\* there with its value unchanged.
C34_CleanupExact ==
  [][cleanupEnds =>
       \A kind \in LedgerKinds, d \in TtlDays :
         /\ d < dayKeyAt(now') => ~ledger'[kind][d].exists
         /\ d = dayKeyAt(now') => ledger'[kind][d] = ledger[kind][d]]_vars

\* ------------------------------------------------------ getRemainingQuota
\* The ledger of today is selUsage / selErrors; input holds the locals of
\* the call in progress, output its result with the ledger as it was when
\* the call began.
InitQuota ==
  /\ \E conn \in BOOLEAN : InitWith(0, 0, conn, "ready", 0)
  /\ selUsage \in [Keys -> 0..(DailyLimit + 1)]
  /\ selErrors \in [Keys -> 0..MaxErrors]
  /\ selResult = 0
  /\ TtlIdle
  /\ AuxIdle

\* totalQuota - totalUsed, without the floor
quotaUnclamped(totalUsed) == Cardinality(Keys) * DailyLimit - totalUsed

\* Math.max(0, this.keys.length * this.dailyLimit - totalUsed)
remainingQuota(totalUsed) == Max(0, Cardinality(Keys) * DailyLimit - totalUsed)

\* getRemainingQuota is called: 0 at once without Redis, otherwise the
\* usage keys of today are read one after the other.
getRemainingQuota ==
  /\ input = NoInput
  /\ output = NoOutput
  /\ IF redisConnected[LiveWorker]
       THEN /\ input' = [op |-> "quota", scan |-> 1, totalUsed |-> 0, missed |-> {},
                         usage |-> selUsage, errors |-> selErrors]
            /\ UNCHANGED output
       ELSE /\ output' = [op |-> "quota", value |-> 0, connected |-> FALSE,
                          missed |-> {}, usage |-> selUsage, errors |-> selErrors]
            /\ UNCHANGED input
  /\ UNCHANGED <<pipeVars, selVars, ttlVars, store, retryConfig>>

\* redis.get(usageKey) answers (parseInt(usage) || 0 is added) or throws
\* (logged, nothing added); after the last key the result is returned.
quotaRead ==
  /\ input.op = "quota"
  /\ \E replied \in BOOLEAN :
       LET k == input.scan
           total == IF replied THEN input.totalUsed + selUsage[k] ELSE input.totalUsed
           missed == IF replied THEN input.missed ELSE input.missed \cup {k}
       IN IF k < Cardinality(Keys)
            THEN /\ input' = [input EXCEPT !.scan = k + 1, !.totalUsed = total,
                                           !.missed = missed]
                 /\ UNCHANGED output
            ELSE /\ input' = NoInput
                 /\ output' = [op |-> "quota", value |-> remainingQuota(total),
                               connected |-> TRUE, missed |-> missed,
                               usage |-> input.usage, errors |-> input.errors]
  /\ UNCHANGED <<pipeVars, selVars, ttlVars, store, retryConfig>>

NextQuota == getRemainingQuota \/ quotaRead

SpecQuota == InitQuota /\ [][NextQuota]_vars

RECURSIVE sumOver(_, _)
sumOver(counter, ks) ==
  IF ks = {} THEN 0
  ELSE LET k == CHOOSE x \in ks : TRUE
       IN counter[k] + sumOver(counter, ks \ {k})

\* C35: with Redis reachable and every read answered, getRemainingQuota
\* returns max(0, |credentials| * DailyLimit - the sum of today's usage
\* counters), whatever the ledger holds; the result is never negative (0
\* without Redis) and no counter is changed by the call.
C35_RemainingQuota ==
  output.op = "quota" =>
    /\ output.value >= 0
    /\ selUsage = output.usage /\ selErrors = output.errors
    /\ ~output.connected => output.value = 0
    /\ output.connected /\ output.missed = {} =>
         output.value = Max(0, NumKeys * DailyLimit - sumOver(selUsage, Keys))

\* C35 witness: the credentials are used beyond the total quota and the
\* call returns 0.
C35_Witness ==
  /\ output.op = "quota"
  /\ output.connected /\ output.missed = {}
  /\ sumOver(selUsage, Keys) > NumKeys * DailyLimit
  /\ output.value = 0

\* no upstream call has answered 2xx so far
noSuccess ==
  /\ \A w \in Workers : stats[w].apiCalls = 0
  /\ \A r \in Reqs : req[r].okUp = 0

\* C36: the errors counter of a credential is charged once per attempt in
\* which the credential is tried.  With LongRetryCount = MaxErrors attempts,
\* counters starting at 0 and every upstream call failing, one call leaves
\* errors(c) = MaxErrors for every credential, so that all are blocked, and
\* the next request fails with the no-credentials error without an upstream
\* call.
C36_ErrorBlocking ==
  (maxInFlight <= 1 /\ noSuccess) =>
    \A r \in Reqs :
      /\ (req[r].pc \in FetchPcs /\ \A q \in Reqs \ {r} : req[q].pc = "idle") =>
           \A k \in Keys : errors[day][k] \in {req[r].attempt - 1, req[r].attempt}
      /\ (req[r].pc = "done" /\ \A q \in Reqs \ {r} : req[q].pc = "idle") =>
           /\ req[r].outcome.val \in UpstreamErrors
           /\ \A k \in Keys : /\ errors[day][k] = retryConfig.count
                                /\ ~isKeyAvailable(usage[day][k], errors[day][k])
      /\ (req[r].pc = "done" /\ \E q \in Reqs : q < r) =>
           /\ req[r].outcome = Fail("nokeys")
           /\ req[r].upCalls = 0
           /\ \A k \in Keys : errors[day][k] = retryConfig.count

\* C36 witness: the first call has failed on every credential in every
\* attempt, and the second call has ended without a credential.
C36_Witness ==
  /\ maxInFlight <= 1 /\ noSuccess
  /\ \A k \in Keys : errors[day][k] = MaxErrors
  /\ \E r \in Reqs :
       /\ req[r].pc = "done" /\ req[r].outcome = Fail("nokeys") /\ req[r].upCalls = 0
       /\ \E q \in Reqs : q < r /\ req[q].pc = "done" /\ req[q].outcome.val \in UpstreamErrors

\* the await of ensureInitialized of request r settles in this step
passesGate(r) == req[r].pc = "init" /\ req'[r].pc # "init"

\* C37: initialization is latched.  Once the first connection attempt has
\* failed (error event, or no connect within 6 s) every getWeatherData call
\* rejects with the initialization error before any cache lookup, coalescing
\* or upstream call, also after Redis has reconnected; once it has succeeded
\* every call passes the gate, whatever the connection does later.
C37_InitLatched ==
  [][/\ \A w \in Workers :
          /\ initState[w] = "failed" => initState'[w] = "failed"
          /\ initState[w] = "ready" => initState'[w] = "ready"
          /\ (initState[w] = "pending" /\ initState'[w] = "ready") => redisConnected'[w]
          /\ (initState[w] = "pending" /\ initState'[w] = "failed") => ~redisConnected'[w]
     /\ \A r \in Reqs : passesGate(r) =>
          IF initState[req[r].w] = "failed"
            THEN /\ req'[r].pc = "done"
                 /\ req'[r].outcome = Fail("init")
                 /\ req'[r].role = IdleReq.role
                 /\ req'[r].upCalls = 0
                 /\ UNCHANGED <<cache, pendingRequests, usage, errors>>
            ELSE /\ initState[req[r].w] = "ready"
                 /\ req'[r].outcome # Fail("init")
                 /\ req'[r].role \in {"hit", "waiter", "initiator"}
     /\ \A r \in Reqs : req[r].outcome = Fail("init") => initState[req[r].w] = "failed"]_vars

\* C37 witness: a call has been rejected with the initialization error at a
\* worker whose Redis connection is up.
C37_Witness ==
  \E r \in Reqs :
    /\ req[r].pc = "done"
    /\ req[r].outcome = Fail("init")
    /\ initState[req[r].w] = "failed"
    /\ redisConnected[req[r].w]
    /\ stats[req[r].w].apiCalls = 0

\* C38: an upstream 2xx with credential c ends the request successfully,
\* whatever the state of the cache: once the 2xx is in, only recordUsage is
\* left to run (no further candidate is called, no error is recorded for c),
\* and the request completes with usage charged exactly once.
C38_SuccessIsFinal ==
  \A r \in Reqs :
    /\ req[r].okUp >= 1 => req[r].okUp = 1 /\ req[r].pc \in {"incrUsage", "usageTail"}
    /\ (req[r].pc = "done" /\ req[r].role = "initiator" /\ req[r].charged >= 1) =>
         req[r].outcome.ok /\ req[r].charged = 1

\* C39: the telemetry counters of a worker satisfy cacheHits + apiCalls +
\* errors <= totalRequests and cacheWrites <= apiCalls, and with the cache
\* enabled cacheWrites = apiCalls whenever no request is in flight.
C39_Telemetry ==
  \A w \in Workers :
    /\ stats[w].cacheHits + stats[w].apiCalls + stats[w].errors <= stats[w].totalRequests
    /\ stats[w].cacheWrites <= stats[w].apiCalls
    /\ (cacheEnabled /\ InFlight(req) = {}) => stats[w].cacheWrites = stats[w].apiCalls

\* ------------------------------------------------------------ GET /stats
\* Each route module keeps a WeatherService instance of its own in a
\* module-level variable: /onecall is served by the instance of the weather
\* routes, /stats by the one the stats routes create on first use.  Both
\* live in one process and share the Redis ledger.
StatsInstance == CHOOSE w \in Workers : w # LiveWorker

\* GET /stats: getWeatherService().getStats() of the stats routes; output
\* is the performance part of the reply.
Stats ==
  /\ output = NoOutput
  /\ initState[StatsInstance] = "ready"
  /\ output' = [op |-> "stats",
                totalRequests |-> stats[StatsInstance].totalRequests,
                cacheHits |-> stats[StatsInstance].cacheHits,
                apiCalls |-> stats[StatsInstance].apiCalls,
                errors |-> stats[StatsInstance].errors]
  /\ UNCHANGED <<pipeVars, selVars, ttlVars, input, store, retryConfig>>

NextStats ==
  \/ Pipeline({LiveWorker})
  \/ Stats

SpecStats == InitLive /\ [][NextStats]_vars

\* GET /stats replies in this step
statsReplies == output = NoOutput /\ output'.op = "stats"

\* C40: the snapshot of /stats reflects the getWeatherData calls handled by
\* /onecall in the same process: the totalRequests it reports counts every
\* /onecall request that has completed (all requests made, when none is in
\* flight).
C40_StatsReflectOnecall ==
  [][statsReplies =>
       /\ output'.totalRequests >= Cardinality({r \in Reqs : req[r].pc = "done"})
       /\ InFlight(req) = {} =>
            output'.totalRequests = Cardinality({r \in Reqs : req[r].pc = "done"})]_vars

====
